---- MODULE Spec2Model ----
(***************************************************************************)
(* Model of KeepassxcDatabase (src/keepassxc/keepassxc_db.py): the wrapper *)
(* around keepassxc-cli that keeps the cached passphrase, its inactivity   *)
(* expiry, and the database / key-file configuration.                      *)
(*                                                                         *)
(* Every public method is one action.  The external world (the clock, the  *)
(* file system, the keepassxc-cli binary and what it answers) is an input  *)
(* of the action, drawn from small sets.  Besides the fields of the object *)
(* the state records the last call: its name, arguments, the environment   *)
(* it ran in, what it returned or raised, and the subprocess invocations   *)
(* it made.                                                                *)
(***************************************************************************)
EXTENDS Integers, Sequences, FiniteSets, TLC

VARIABLES
    cli_checked,              \* self.cli_checked
    path,                     \* self.path
    path_checked,             \* self.path_checked
    key_file_path,            \* self.key_file_path
    passphrase,               \* self.passphrase
    passphrase_expires_at,    \* self.passphrase_expires_at
    inactivity_lock_timeout,  \* self.inactivity_lock_timeout
    now,                      \* datetime.now(), in seconds
    op,                       \* name of the last method called ("tick" for the clock)
    args,                     \* its arguments
    env,                      \* the environment the call ran in
    ret,                      \* what it returned or raised
    calls,                    \* the subprocess invocations it attempted, in order
    before,                   \* history: the passphrase and the lock state before it
    unlockedAt,               \* history: when verify_and_set_passphrase last returned True
    usedSince,                \* history: search / get_entry_details called since then
    lastRun                   \* history: when the last invocation made by run_cli ended

fields == <<cli_checked, path, path_checked, key_file_path, passphrase,
            passphrase_expires_at, inactivity_lock_timeout>>
last == <<op, args, env, ret, calls, before>>
hist == <<unlockedAt, usedSince, lastRun>>
vars == <<fields, now, last, hist>>

----------------------------------------------------------------------------
(* Bounds *)

MaxTime == 2        \* the clock runs from 0 to MaxTime
MaxTimeout == 1     \* inactivity timeouts are 0..MaxTimeout
MaxDelay == 1       \* seconds one method call may spend blocked in the tool

----------------------------------------------------------------------------
(* Values *)

None == "None"      \* Python None, for string-valued fields
NoTime == -1        \* Python None, for passphrase_expires_at

Cli == "keepassxc-cli"

PathArgs == {"/a.kdbx", "~/b.kdbx"}
KeyFileArgs == {None, "~/k"}
Passphrases == {"pw1", "pw2"}
Queries == {"git"}
Entries == {<<"a">>}       \* entry names are character sequences

\* the files that may or may not exist when a call is made
Files == {"/a.kdbx", "/home/u/k"}

\* os.path.expanduser: a leading "~" is replaced by the home directory
Expanduser(p) ==
    CASE p = "~/b.kdbx" -> "/home/u/b.kdbx"
      [] p = "~/k"      -> "/home/u/k"
      [] OTHER          -> p

\* os.path.exists in the file system fs
Exists(fs, p) == p \in fs

\* Python truthiness of an optional string
Truthy(s) == s # None /\ s # ""

NoRet == [exc |-> "none", bool |-> "-", names |-> <<>>, attrs |-> <<>>, msg |-> <<>>]
Returned == NoRet
ReturnedBool(b) == [NoRet EXCEPT !.bool = IF b THEN "True" ELSE "False"]
Raised(e) == [NoRet EXCEPT !.exc = e]
RaisedMsg(e, m) == [NoRet EXCEPT !.exc = e, !.msg = m]

NoEnv == [installed |-> TRUE, fs |-> {}]
NoRc == -1          \* no exit code: the process was not spawned

----------------------------------------------------------------------------
(* Text: stdout is a sequence of characters, stderr a sequence of words *)

NL == "\n"

RECURSIVE SplitLinesFrom(_, _)
\* str.splitlines(): cur is the line being read
SplitLinesFrom(text, cur) ==
    IF text = <<>> THEN (IF cur = <<>> THEN <<>> ELSE <<cur>>)
    ELSE IF Head(text) = NL THEN <<cur>> \o SplitLinesFrom(Tail(text), <<>>)
    ELSE SplitLinesFrom(Tail(text), Append(cur, Head(text)))

SplitLines(text) == SplitLinesFrom(text, <<>>)

\* variant of DropFirst: only a leading "/" is removed
DropSlash(l) == IF l # <<>> /\ Head(l) = "/" THEN Tail(l) ELSE l

\* l[1:]
DropFirst(l) == IF l = <<>> THEN <<>> ELSE Tail(l)

RECURSIVE StripLeft(_)
StripLeft(text) ==
    IF text # <<>> /\ Head(text) = NL THEN StripLeft(Tail(text)) ELSE text

RECURSIVE StripRight(_)
StripRight(text) ==
    IF text # <<>> /\ text[Len(text)] = NL
    THEN StripRight(SubSeq(text, 1, Len(text) - 1)) ELSE text

\* out.strip("\n")
Strip(text) == StripRight(StripLeft(text))

\* needle in text
Contains(needle, text) ==
    \E i \in 0..(Len(text) - Len(needle)) :
        SubSeq(text, i + 1, i + Len(needle)) = needle

NoResultsText == <<"No", "results", "for", "that">>

----------------------------------------------------------------------------
(* What the external tool may answer *)

Delays(t) == 0..(IF MaxTime - t < MaxDelay THEN MaxTime - t ELSE MaxDelay)

\* nothing, or three lines: the last does not start with "/" and is not terminated
SearchOutputs == {<<>>, <<"/", "a", NL, "/", "b", NL, "x", "a">>}
SearchErrors == {<<"No", "results", "for", "that", "search", "term.">>,
                 <<"Error:", "No", "results", "for", "that", "search", "term.">>,
                 <<"Invalid", "credentials">>,
                 <<"No", "results">>}
\* what show prints for each attribute of the entries of the database
ShowOutput(attr) ==
    CASE attr = "UserName" -> <<"u", NL>>
      [] attr = "Password" -> <<"p">>
      [] attr = "URL"      -> <<>>
      [] OTHER             -> <<NL, "n", NL, NL>>

Outcome(spawned, delay, rc, out, err) ==
    [spawned |-> spawned, delay |-> delay, rc |-> rc, out |-> out, err |-> err]

NotSpawned == Outcome(FALSE, 0, 0, <<>>, <<>>)

\* the listing either cannot be spawned or exits with 0 or 1
ListOutcomes(t) ==
    {NotSpawned} \cup {Outcome(TRUE, d, rc, <<>>, <<>>) : d \in Delays(t), rc \in {0, 1}}

SearchToolOutcomes(t) ==
    {NotSpawned}
    \cup {Outcome(TRUE, d, 0, out, <<>>) : d \in Delays(t), out \in SearchOutputs}
    \cup {Outcome(TRUE, d, 1, <<>>, err) : d \in Delays(t), err \in SearchErrors}

\* the four show invocations of one call: either the tool cannot be spawned
\* when the call starts, or invocation k (if any) exits with 1; invocation j
\* takes d seconds (the others none)
Failures == {<<0, "none">>, <<1, "oserror">>} \cup ((1..4) \X {"exit"})

SlowPlans == {<<1, 0>>} \cup ((1..4) \X (1..MaxDelay))

\* the slow invocation is one that is made and that runs
SlowRuns(fail, slow) ==
    \/ fail[1] = 0
    \/ slow[2] = 0
    \/ slow[1] < fail[1]
    \/ slow[1] = fail[1] /\ fail[2] = "exit"

ShowPlan(attrs, fail, slow) ==
    [i \in 1..4 |->
        Outcome(~(i = fail[1] /\ fail[2] = "oserror"),
                IF i = slow[1] THEN slow[2] ELSE 0,
                IF i = fail[1] /\ fail[2] = "exit" THEN 1 ELSE 0,
                IF i = fail[1] THEN <<>> ELSE ShowOutput(attrs[i]),
                IF i = fail[1] THEN <<"Could", "not", "find", "entry">> ELSE <<>>)]

\* the environments a call that looks at the files in seen may run in:
\* whether the tool can be spawned, and which of these files exist
Environments(seen) == [installed : BOOLEAN, fs : SUBSET (Files \cap seen)]

----------------------------------------------------------------------------
(* run_cli *)

\* variant of RunCliArgs: "-k <key file>" goes before the subcommand
RunCliArgsKeyFirst(a, key) ==
    IF Truthy(key) THEN <<Cli, "-k", key>> \o a ELSE <<Cli>> \o a

\* cli_args: "-k <key file>" goes right after the subcommand
RunCliArgs(a, key) ==
    IF Truthy(key)
    THEN <<Cli>> \o SubSeq(a, 1, 1) \o <<"-k", key>> \o SubSeq(a, 2, Len(a))
    ELSE <<Cli>> \o a

\* variant of NewExpiry: the timeout is not added to the clock
NewExpiryNow(timeout, exp, t) == IF timeout # 0 THEN t ELSE exp

\* variant of NewExpiry: an expiry that is already armed is left alone
NewExpiryOnce(timeout, exp, t) == IF timeout # 0 /\ exp = NoTime THEN t + timeout ELSE exp

\* every invocation that returns re-arms the expiry when a timeout is set
NewExpiry(timeout, exp, t) == IF timeout # 0 THEN t + timeout ELSE exp

\* subprocess.run raises TypeError for an argument that is None (self.path
\* before initialize); the last argument of show is an f-string, never None
ArgvHasNone(argv) ==
    \E i \in 1..Len(argv) : (i = Len(argv) => argv[2] # "show") /\ argv[i] = None

\* subprocess.run(cli_args, input=pass) at time t with the tool answering o,
\* and the re-arming of the expiry: the exception raised ("none" if run_cli
\* returns), the new expiry, the time of return and the invocation (with the
\* time subprocess.run ended and the expiry run_cli left behind)
RunArgv(argv, pass, timeout, exp, t, o) ==
    IF ArgvHasNone(argv)
    THEN [exc |-> "TypeError", expires |-> exp, now |-> t,
          call |-> [argv |-> argv, stdin |-> pass, at |-> t, spawned |-> FALSE,
                    rc |-> NoRc, out |-> <<>>, err |-> <<>>,
                    done |-> t, expires |-> exp]]
    ELSE IF ~o.spawned
    THEN [exc |-> "KeepassxcCliNotFoundError", expires |-> exp, now |-> t,
          call |-> [argv |-> argv, stdin |-> pass, at |-> t, spawned |-> FALSE,
                    rc |-> NoRc, out |-> <<>>, err |-> <<>>,
                    done |-> t, expires |-> exp]]
    ELSE \* the clock is read again after the process has ended
         LET end == t + o.delay
             armed == NewExpiry(timeout, exp, end)
         IN  [exc |-> "none", expires |-> armed, now |-> end,
              call |-> [argv |-> argv, stdin |-> pass, at |-> t, spawned |-> TRUE,
                        rc |-> o.rc, out |-> o.out, err |-> o.err,
                        done |-> end, expires |-> armed]]

\* run_cli(*a)
RunCli(a, key, pass, timeout, exp, t, o) ==
    RunArgv(RunCliArgs(a, key), pass, timeout, exp, t, o)

----------------------------------------------------------------------------
(* is_passphrase_needed *)

\* variants of Expired: the expiry instant itself counts as elapsed / nothing ever elapses
ExpiredAtDeadline(t, exp) == t >= exp
ExpiredNever(t, exp) == FALSE

\* variant of Expired: one second of grace after the expiry
ExpiredLate(t, exp) == t > exp + 1

\* datetime.now() > self.passphrase_expires_at
Expired(t, exp) == t > exp

\* variant of TimeoutSet: the expiry is consulted also when the timeout is 0
TimeoutSetAlways(timeout) == timeout >= 0

\* if self.inactivity_lock_timeout:
TimeoutSet(timeout) == timeout # 0

\* variant of PassphraseAfterExpiry: the stale passphrase is kept and ignored
PassphraseIgnored(pass) == pass

\* self.passphrase = None   (when the timeout has elapsed)
PassphraseAfterExpiry(pass) == None

\* the result ("True", "False", or "TypeError" when the clock is compared
\* with a missing expiry) and the passphrase left behind
IsPassphraseNeeded(pass, timeout, exp, t) ==
    IF pass = None THEN [result |-> "True", passphrase |-> pass]
    ELSE IF TimeoutSet(timeout)
    THEN IF exp = NoTime THEN [result |-> "TypeError", passphrase |-> pass]
         ELSE IF Expired(t, exp)
              THEN [result |-> "True", passphrase |-> PassphraseAfterExpiry(pass)]
         ELSE [result |-> "False", passphrase |-> pass]
    ELSE [result |-> "False", passphrase |-> pass]

----------------------------------------------------------------------------
(* initialize *)

\* can_execute_cli: subprocess.run([self.cli]) raises no OSError
CanExecuteCli(e) == e.installed

\* if not self.cli_checked:
NeedsCliCheck(cc) == ~cc

\* variant of NeedsPathCheck: a new path does not reset the flag
NeedsPathCheckStale(pc, changed) == ~pc

\* if not self.path_checked:   (after a new path has reset the flag)
NeedsPathCheck(pc, changed) == changed \/ ~pc

\* variant of PassphraseAfterPath: initialize always drops the passphrase
PassphraseDropped(pw, changed) == None

\* if path != self.path: ... self.passphrase = None
PassphraseAfterPath(pw, changed) == IF changed THEN None ELSE pw

\* variant of KeyFileStored: the key-file path is stored as it was given
KeyFileAsGiven(k) == k

\* self.key_file_path = expanded_key_file_path
KeyFileStored(k) == Expanduser(k)

\* initialize(p, secs, k) in environment e, on the object with fields s:
\* the fields afterwards, what it raised, and the invocations it made
InitializeResult(p, secs, k, e, s, t) ==
    LET s1 == [s EXCEPT !.inactivity_lock_timeout = secs]
        probe == [argv |-> <<Cli>>, stdin |-> None, at |-> t, spawned |-> e.installed,
                  rc |-> IF e.installed THEN 1 ELSE NoRc, out |-> <<>>, err |-> <<>>,
                  done |-> t, expires |-> s.passphrase_expires_at]
        cs == IF NeedsCliCheck(s.cli_checked) THEN <<probe>> ELSE <<>>
    IN  IF NeedsCliCheck(s.cli_checked) /\ ~CanExecuteCli(e)
        THEN [s |-> s1, ret |-> Raised("KeepassxcCliNotFoundError"), calls |-> cs]
        ELSE
        LET changed == p # s.path
            s2 == [s1 EXCEPT !.cli_checked = TRUE,
                             !.path = p,
                             !.path_checked = IF changed THEN FALSE ELSE @,
                             !.passphrase = PassphraseAfterPath(@, changed)]
        IN  IF NeedsPathCheck(s.path_checked, changed) /\ ~Exists(e.fs, p)
            THEN [s |-> s2, ret |-> Raised("KeepassxcFileNotFoundError"), calls |-> cs]
            ELSE
            LET s3 == [s2 EXCEPT !.path_checked = TRUE]
            IN  IF Truthy(k)
                THEN IF Exists(e.fs, Expanduser(k))
                     THEN [s |-> [s3 EXCEPT !.key_file_path = KeyFileStored(k)],
                           ret |-> Returned, calls |-> cs]
                     ELSE [s |-> s3, ret |-> Raised("KeepassxcFileNotFoundError"),
                           calls |-> cs]
                ELSE [s |-> [s3 EXCEPT !.key_file_path = None],
                      ret |-> Returned, calls |-> cs]

\* the passphrase and the answer of is_passphrase_needed at this moment; for
\* get_entry_details also the stdout of the search called just before it
Before ==
    [passphrase |-> passphrase,
     locked |-> IsPassphraseNeeded(passphrase, inactivity_lock_timeout,
                                   passphrase_expires_at, now).result,
     listing |-> <<>>]

NoBefore == [passphrase |-> None, locked |-> "True", listing |-> <<>>]

\* the stdout of the search that has just returned names, if any
Listing ==
    IF op = "search" /\ ret.exc = "none" /\ Len(calls) = 1 /\ calls[1].spawned
    THEN calls[1].out ELSE <<>>

Self ==
    [cli_checked |-> cli_checked, path |-> path, path_checked |-> path_checked,
     key_file_path |-> key_file_path, passphrase |-> passphrase,
     passphrase_expires_at |-> passphrase_expires_at,
     inactivity_lock_timeout |-> inactivity_lock_timeout]

SetSelf(s) ==
    /\ cli_checked' = s.cli_checked
    /\ path' = s.path
    /\ path_checked' = s.path_checked
    /\ key_file_path' = s.key_file_path
    /\ passphrase' = s.passphrase
    /\ passphrase_expires_at' = s.passphrase_expires_at
    /\ inactivity_lock_timeout' = s.inactivity_lock_timeout

Initialize ==
    \E p \in PathArgs, secs \in 0..MaxTimeout, k \in KeyFileArgs :
        \E e \in Environments({p, Expanduser(k)}) :
        \E r \in {InitializeResult(p, secs, k, e, Self, now)} :
            /\ SetSelf(r.s)
            /\ op' = "initialize"
            /\ args' = [path |-> p, inactivity_lock_timeout |-> secs, key_file_path |-> k]
            /\ env' = e
            /\ ret' = r.ret
            /\ calls' = r.calls
            /\ before' = Before
            /\ unlockedAt' = NoTime
            /\ usedSince' = FALSE
            /\ lastRun' = NoTime
            /\ UNCHANGED now

----------------------------------------------------------------------------
(* change_path, change_inactivity_lock_timeout *)

\* variant of ChangePathResult: the expiry is left armed
ChangePathKeepsExpiry(new_path, s) ==
    [s EXCEPT !.path = Expanduser(new_path),
              !.path_checked = FALSE,
              !.passphrase = None]

ChangePathResult(new_path, s) ==
    [s EXCEPT !.path = Expanduser(new_path),
              !.path_checked = FALSE,
              !.passphrase = None,
              !.passphrase_expires_at = NoTime]

ChangePath ==
    \E p \in PathArgs :
        /\ SetSelf(ChangePathResult(p, Self))
        /\ op' = "change_path"
        /\ args' = [new_path |-> p]
        /\ env' = NoEnv
        /\ ret' = Returned
        /\ calls' = <<>>
        /\ before' = Before
        /\ unlockedAt' = NoTime
        /\ usedSince' = FALSE
        /\ lastRun' = NoTime
        /\ UNCHANGED now

ChangeInactivityLockTimeoutResult(secs, s) ==
    [s EXCEPT !.inactivity_lock_timeout = secs,
              !.passphrase = None,
              !.passphrase_expires_at = NoTime]

ChangeInactivityLockTimeout ==
    \E secs \in 0..MaxTimeout :
        /\ SetSelf(ChangeInactivityLockTimeoutResult(secs, Self))
        /\ op' = "change_inactivity_lock_timeout"
        /\ args' = [secs |-> secs]
        /\ env' = NoEnv
        /\ ret' = Returned
        /\ calls' = <<>>
        /\ before' = Before
        /\ unlockedAt' = NoTime
        /\ usedSince' = FALSE
        /\ lastRun' = NoTime
        /\ UNCHANGED now

----------------------------------------------------------------------------
(* is_passphrase_needed, called by the user of the object *)

IsPassphraseNeededCall ==
    LET chk == IsPassphraseNeeded(passphrase, inactivity_lock_timeout,
                                  passphrase_expires_at, now)
    IN  /\ passphrase' = chk.passphrase
        /\ op' = "is_passphrase_needed"
        /\ args' = <<>>
        /\ env' = NoEnv
        /\ ret' = IF chk.result = "TypeError" THEN Raised("TypeError")
                   ELSE ReturnedBool(chk.result = "True")
        /\ calls' = <<>>
        /\ before' = Before
        /\ UNCHANGED <<cli_checked, path, path_checked, key_file_path,
                       passphrase_expires_at, inactivity_lock_timeout, now, hist>>

----------------------------------------------------------------------------
(* verify_and_set_passphrase *)

\* variant of PassphraseAfterVerify: a rejected passphrase stays cached
PassphraseKept(p, rc) == p

\* if return_code != 0: self.passphrase = None
PassphraseAfterVerify(p, rc) == IF rc # 0 THEN None ELSE p

VerifyAndSetPassphrase ==
    \E p \in Passphrases, o \in ListOutcomes(now) :
        \E r \in {RunCli(<<"ls", "-q", path>>, key_file_path, p,
                        inactivity_lock_timeout, passphrase_expires_at, now, o)} :
            /\ passphrase' = IF r.exc # "none" THEN p ELSE PassphraseAfterVerify(p, r.call.rc)
            /\ passphrase_expires_at' = r.expires
            /\ now' = r.now
            /\ op' = "verify_and_set_passphrase"
            /\ args' = [passphrase |-> p]
            /\ env' = NoEnv
            /\ ret' = IF r.exc # "none" THEN Raised(r.exc) ELSE ReturnedBool(r.call.rc = 0)
            /\ calls' = <<r.call>>
            /\ before' = Before
            /\ unlockedAt' = IF r.exc = "none" /\ r.call.rc = 0 THEN r.now ELSE NoTime
            /\ usedSince' = FALSE
            /\ lastRun' = IF r.call.spawned THEN r.call.done ELSE lastRun
            /\ UNCHANGED <<cli_checked, path, path_checked, key_file_path,
                           inactivity_lock_timeout>>

----------------------------------------------------------------------------
(* search *)

\* return [l[1:] for l in out.splitlines()]
ParseNames(out) == LET ls == SplitLines(out) IN [i \in 1..Len(ls) |-> DropFirst(ls[i])]

\* variant of SearchResult: every nonzero exit is an error
SearchResultStrict(rc, err, out) ==
    IF rc # 0 THEN RaisedMsg("KeepassxcCliError", err)
    ELSE [NoRet EXCEPT !.names = ParseNames(out)]

\* what search makes of the tool's answer
SearchResult(rc, err, out) ==
    IF rc # 0
    THEN IF Contains(NoResultsText, err) THEN Returned
         ELSE RaisedMsg("KeepassxcCliError", err)
    ELSE [NoRet EXCEPT !.names = ParseNames(out)]

\* what a call that needs the unlocked database does when
\* is_passphrase_needed() does not return False
RaiseLocked(name, a, chk) ==
    /\ passphrase' = chk.passphrase
    /\ op' = name
    /\ args' = a
    /\ env' = NoEnv
    /\ ret' = IF chk.result = "TypeError" THEN Raised("TypeError")
               ELSE Raised("KeepassxcLockedDbError")
    /\ calls' = <<>>
    /\ before' = Before
    /\ usedSince' = TRUE
    /\ UNCHANGED <<cli_checked, path, path_checked, key_file_path,
                   passphrase_expires_at, inactivity_lock_timeout, now, unlockedAt,
                   lastRun>>

Search ==
    \E q \in Queries :
        LET chk == IsPassphraseNeeded(passphrase, inactivity_lock_timeout,
                                      passphrase_expires_at, now)
        IN  IF chk.result # "False"
            THEN RaiseLocked("search", [query |-> q], chk)
            ELSE \E o \in SearchToolOutcomes(now) :
                \E r \in {RunCli(<<"search", "-q", path, q>>, key_file_path, passphrase,
                                inactivity_lock_timeout, passphrase_expires_at, now, o)} :
                    /\ passphrase_expires_at' = r.expires
                    /\ now' = r.now
                    /\ op' = "search"
                    /\ args' = [query |-> q]
                    /\ env' = NoEnv
                    /\ ret' = IF r.exc # "none" THEN Raised(r.exc)
                               ELSE SearchResult(r.call.rc, r.call.err, r.call.out)
                    /\ calls' = <<r.call>>
                    /\ before' = Before
                    /\ usedSince' = TRUE
                    /\ lastRun' = IF r.call.spawned THEN r.call.done ELSE lastRun
                    /\ UNCHANGED <<cli_checked, path, path_checked, key_file_path,
                                   passphrase, inactivity_lock_timeout, unlockedAt>>

----------------------------------------------------------------------------
(* get_entry_details *)

Attrs == <<"UserName", "Password", "URL", "Notes">>

\* variant of ShowFailed: the exit code of show is ignored
ShowNeverFailed(rc) == FALSE

\* if return_code != 0: raise KeepassxcCliError(err)
ShowFailed(rc) == rc # 0

\* the rest of iteration i, after run_cli gave r: st is the state of the
\* loop (the exception that left it, "none" while it runs, its message, the
\* expiry, the clock, the invocations made and the attributes collected)
ShowNext(i, st, r) ==
    IF r.exc # "none"
    THEN [st EXCEPT !.exc = r.exc, !.expires = r.expires, !.now = r.now,
                    !.calls = Append(@, r.call)]
    ELSE IF ShowFailed(r.call.rc)
    THEN [st EXCEPT !.exc = "KeepassxcCliError", !.msg = r.call.err,
                    !.expires = r.expires, !.now = r.now,
                    !.calls = Append(@, r.call)]
    ELSE [st EXCEPT !.expires = r.expires, !.now = r.now,
                    !.calls = Append(@, r.call),
                    !.attrs = @ @@ (Attrs[i] :> Strip(r.call.out))]

RECURSIVE ShowLoop(_, _, _, _, _, _, _, _)
\* the for loop from attribute i on, started in state st; r is what run_cli
\* gives in iteration i and nxt the state after that iteration
ShowLoop(i, entry, plan, db, key, pass, timeout, st) ==
    IF i > Len(Attrs) \/ st.exc # "none" THEN st
    ELSE CHOOSE end \in
            {ShowLoop(i + 1, entry, plan, db, key, pass, timeout, nxt) :
                nxt \in {ShowNext(i, st, r) :
                    r \in {RunCli(<<"show", "-q", "-a", Attrs[i], db, <<"/">> \o entry>>,
                                  key, pass, timeout, st.expires, st.now, plan[i])}}} :
            TRUE

GetEntryDetails ==
    \E entry \in Entries :
        LET chk == IsPassphraseNeeded(passphrase, inactivity_lock_timeout,
                                      passphrase_expires_at, now)
        IN  IF chk.result # "False"
            THEN RaiseLocked("get_entry_details", [entry |-> entry], chk)
            ELSE \E fail \in Failures, slow \in SlowPlans :
                /\ SlowRuns(fail, slow)
                /\ slow[2] \in Delays(now)
                /\ \E plan \in {ShowPlan(Attrs, fail, slow)} :
                   \E r \in {ShowLoop(1, entry, plan, path, key_file_path, passphrase,
                                       inactivity_lock_timeout,
                                       [exc |-> "none", msg |-> <<>>,
                                        expires |-> passphrase_expires_at, now |-> now,
                                        calls |-> <<>>, attrs |-> <<>>])} :
                       /\ passphrase_expires_at' = r.expires
                       /\ now' = r.now
                       /\ op' = "get_entry_details"
                       /\ args' = [entry |-> entry]
                       /\ env' = NoEnv
                       /\ ret' = IF r.exc # "none" THEN RaisedMsg(r.exc, r.msg)
                                  ELSE [NoRet EXCEPT !.attrs = r.attrs]
                       /\ calls' = r.calls
                       /\ before' = [Before EXCEPT !.listing = Listing]
                       /\ usedSince' = TRUE
                       /\ lastRun' = IF r.calls[1].spawned THEN r.now ELSE lastRun
                       /\ UNCHANGED <<cli_checked, path, path_checked, key_file_path,
                                      passphrase, inactivity_lock_timeout, unlockedAt>>

----------------------------------------------------------------------------
(* The clock *)

Tick ==
    /\ now < MaxTime
    /\ now' = now + 1
    /\ op' = "tick"
    /\ args' = <<>>
    /\ env' = NoEnv
    /\ ret' = NoRet
    /\ calls' = <<>>
    /\ before' = NoBefore
    /\ UNCHANGED <<fields, hist>>

----------------------------------------------------------------------------
(* __init__ *)

Init ==
    /\ cli_checked = FALSE
    /\ path = None
    /\ path_checked = FALSE
    /\ key_file_path = None
    /\ passphrase = None
    /\ passphrase_expires_at = NoTime
    /\ inactivity_lock_timeout = 0
    /\ now = 0
    /\ op = "__init__"
    /\ args = <<>>
    /\ env = NoEnv
    /\ ret = NoRet
    /\ calls = <<>>
    /\ before = NoBefore
    /\ unlockedAt = NoTime
    /\ usedSince = FALSE
    /\ lastRun = NoTime

Next ==
    \/ Initialize
    \/ ChangePath
    \/ ChangeInactivityLockTimeout
    \/ IsPassphraseNeededCall
    \/ VerifyAndSetPassphrase
    \/ Search
    \/ GetEntryDetails
    \/ Tick

Spec == Init /\ [][Next]_vars

----------------------------------------------------------------------------
(* Properties *)

\* what is_passphrase_needed() would answer in the state reached
LockedAfter ==
    IsPassphraseNeeded(passphrase', inactivity_lock_timeout',
                       passphrase_expires_at', now').result

\* C1: with a timeout T > 0, after verify_and_set_passphrase returned True at
\* time t and nothing but is_passphrase_needed was called since, a call of
\* is_passphrase_needed at time u returns False if u <= t + T and True if
\* u > t + T, and a call that returns True leaves the passphrase None.
C1_LockedExactlyAfterTimeout ==
    [][(/\ op' = "is_passphrase_needed"
        /\ unlockedAt # NoTime
        /\ ~usedSince
        /\ inactivity_lock_timeout > 0)
       => /\ ret'.exc = "none"
          /\ ret'.bool = (IF now > unlockedAt + inactivity_lock_timeout
                          THEN "True" ELSE "False")
          /\ (ret'.bool = "True" => passphrase' = None)]_vars

C1_Witness ==
    /\ op = "is_passphrase_needed"
    /\ unlockedAt # NoTime
    /\ ~usedSince
    /\ inactivity_lock_timeout > 0
    /\ now = unlockedAt + inactivity_lock_timeout + 1
    /\ before.passphrase # None
    /\ ret.bool = "True"
    /\ passphrase = None

\* C2: with timeout 0, once verify_and_set_passphrase has returned True and
\* no unlock, initialize, change_path or change_inactivity_lock_timeout has
\* been called since, is_passphrase_needed returns False at any later time
\* and search / get_entry_details do not raise KeepassxcLockedDbError.
C2_NeverLocksWithoutTimeout ==
    [][(/\ unlockedAt # NoTime
        /\ inactivity_lock_timeout = 0
        /\ op' \in {"is_passphrase_needed", "search", "get_entry_details"})
       => /\ ret'.exc # "KeepassxcLockedDbError"
          /\ (op' = "is_passphrase_needed"
                => ret'.exc = "none" /\ ret'.bool = "False")
          /\ passphrase' # None]_vars

C2_Witness ==
    /\ op = "is_passphrase_needed"
    /\ unlockedAt # NoTime
    /\ usedSince
    /\ inactivity_lock_timeout = 0
    /\ now >= unlockedAt + 2
    /\ ret.bool = "False"

\* C3: when the listing of verify_and_set_passphrase(p) exits with 0, the
\* call returns True, the passphrase is p and, with a nonzero timeout, the
\* expiry is the time of return plus the timeout; a search called right
\* after it does not raise KeepassxcLockedDbError.
C3_UnlockSucceeds ==
    [][/\ (/\ op' = "verify_and_set_passphrase"
           /\ calls'[1].spawned
           /\ calls'[1].rc = 0)
          => /\ ret'.exc = "none"
             /\ ret'.bool = "True"
             /\ passphrase' = args'.passphrase
             /\ (inactivity_lock_timeout' # 0
                   => passphrase_expires_at' = now' + inactivity_lock_timeout')
       /\ (/\ op = "verify_and_set_passphrase"
           /\ ret.bool = "True"
           /\ op' = "search")
          => /\ ret'.exc # "KeepassxcLockedDbError"
             /\ Len(calls') = 1]_vars

C3_Witness ==
    /\ op = "search"
    /\ Len(calls) = 1
    /\ unlockedAt = calls[1].at
    /\ inactivity_lock_timeout # 0
    /\ before.passphrase \in Passphrases
    /\ calls[1].stdin = before.passphrase
    /\ ret.exc = "none"

\* C4: when the listing of verify_and_set_passphrase exits with a nonzero
\* code, the call returns False without raising, the passphrase is None
\* afterwards and is_passphrase_needed answers True, also when the database
\* was unlocked with another passphrase before the call.
C4_UnlockFails ==
    [][(/\ op' = "verify_and_set_passphrase"
        /\ calls'[1].spawned
        /\ calls'[1].rc # 0)
       => /\ ret'.exc = "none"
          /\ ret'.bool = "False"
          /\ passphrase' = None
          /\ LockedAfter = "True"]_vars

C4_Witness ==
    /\ op = "verify_and_set_passphrase"
    /\ calls[1].spawned
    /\ calls[1].rc # 0
    /\ before.locked = "False"
    /\ before.passphrase # args.passphrase
    /\ ret.bool = "False"
    /\ passphrase = None

\* C5: change_path and change_inactivity_lock_timeout leave the passphrase
\* None and the expiry None, and is_passphrase_needed answers True right
\* after them, also when it answered False before.
C5_MutatorsLock ==
    [][op' \in {"change_path", "change_inactivity_lock_timeout"}
       => /\ passphrase' = None
          /\ passphrase_expires_at' = NoTime
          /\ LockedAfter = "True"]_vars

C5_Witness ==
    /\ op = "change_path"
    /\ before.locked = "False"
    /\ before.passphrase # None
    /\ passphrase = None
    /\ passphrase_expires_at = NoTime

\* C6: search and get_entry_details called while the passphrase is None, or
\* while a nonzero timeout has elapsed, raise KeepassxcLockedDbError and
\* attempt no invocation of the tool.
C6_LockedRaisesWithoutSpawning ==
    [][(/\ op' \in {"search", "get_entry_details"}
        /\ \/ passphrase = None
           \/ /\ inactivity_lock_timeout # 0
              /\ passphrase_expires_at # NoTime
              /\ now > passphrase_expires_at)
       => /\ ret'.exc = "KeepassxcLockedDbError"
          /\ Len(calls') = 0]_vars

C6_Witness ==
    /\ op = "get_entry_details"
    /\ before.passphrase # None
    /\ inactivity_lock_timeout # 0
    /\ now > passphrase_expires_at
    /\ ret.exc = "KeepassxcLockedDbError"
    /\ Len(calls) = 0

\* the attribute a show invocation asks for: the argument after "-a"
AttrOfCall(c) ==
    c.argv[(CHOOSE i \in 1..(Len(c.argv) - 2) : c.argv[i] = "-a") + 1]

\* C7: get_entry_details on an unlocked database invokes show for UserName,
\* Password, URL, Notes in this order, one after the other; when all four
\* exit with 0 there are exactly 4 invocations and the result is a map with
\* exactly these four keys; when the k-th exits nonzero the call raises
\* KeepassxcCliError, makes no invocation after the k-th and returns no map.
C7_ShowAllOrNothing ==
    (op = "get_entry_details" /\ before.locked = "False") =>
        LET n == Len(calls)
            order == <<"UserName", "Password", "URL", "Notes">>
        IN  /\ n \in 1..4
            /\ \A i \in 1..n : calls[i].argv[2] = "show" /\ AttrOfCall(calls[i]) = order[i]
            /\ \A i \in 1..(n - 1) :
                  /\ calls[i].spawned
                  /\ calls[i].rc = 0
                  /\ calls[i].at <= calls[i + 1].at
            /\ (calls[n].spawned /\ calls[n].rc = 0)
                  => /\ n = 4
                     /\ ret.exc = "none"
                     /\ DOMAIN ret.attrs = {"UserName", "Password", "URL", "Notes"}
            /\ (calls[n].spawned /\ calls[n].rc # 0)
                  => /\ ret.exc = "KeepassxcCliError"
                     /\ DOMAIN ret.attrs = {}

C7_Witness ==
    /\ op = "get_entry_details"
    /\ before.locked = "False"
    /\ Len(calls) = 3
    /\ calls[3].spawned
    /\ calls[3].rc # 0
    /\ ret.exc = "KeepassxcCliError"

\* the stderr texts of the tool that say that nothing matched the query
NoResultsErrors ==
    {<<"No", "results", "for", "that", "search", "term.">>,
     <<"Error:", "No", "results", "for", "that", "search", "term.">>}

\* C8: search on an unlocked database whose invocation ran gives exactly one
\* of: the list of parsed entry names when the exit code is 0; the empty
\* list, without raising, when the exit code is nonzero and stderr says "no
\* results"; KeepassxcCliError carrying stderr unchanged for any other
\* nonzero exit.
C8_SearchOutcome ==
    (op = "search" /\ Len(calls) = 1 /\ calls[1].spawned) =>
        LET c == calls[1]
        IN  /\ c.rc = 0
               => /\ ret.exc = "none"
                  /\ ret.names = ParseNames(c.out)
                  /\ Len(ret.names) = Len(SplitLines(c.out))
            /\ (c.rc # 0 /\ c.err \in NoResultsErrors)
               => /\ ret.exc = "none"
                  /\ ret.names = <<>>
            /\ (c.rc # 0 /\ c.err \notin NoResultsErrors)
               => /\ ret.exc = "KeepassxcCliError"
                  /\ ret.msg = c.err

C8_Witness ==
    /\ op = "search"
    /\ Len(calls) = 1
    /\ calls[1].spawned
    /\ calls[1].rc # 0
    /\ calls[1].err \in NoResultsErrors
    /\ ret.exc = "none"
    /\ ret.names = <<>>

\* C9 as stated: initialize raises KeepassxcCliNotFoundError whenever the tool
\* cannot be spawned; otherwise KeepassxcFileNotFoundError when the database
\* path does not exist; otherwise KeepassxcFileNotFoundError when a key file
\* is given and does not exist; otherwise it returns.
C9_AsStated ==
    op = "initialize" =>
        ret.exc =
            IF ~env.installed THEN "KeepassxcCliNotFoundError"
            ELSE IF ~Exists(env.fs, args.path) THEN "KeepassxcFileNotFoundError"
            ELSE IF Truthy(args.key_file_path)
                    /\ ~Exists(env.fs, Expanduser(args.key_file_path))
                 THEN "KeepassxcFileNotFoundError"
            ELSE "none"

\* C9 (amended): initialize checks in a fixed order and raises on the first
\* failing check, but the tool is probed only while it has not been found
\* executable by an earlier initialize, and the database path is tested only
\* when it differs from the stored path or the stored path is not verified:
\* KeepassxcCliNotFoundError if the tool is unverified and cannot be spawned,
\* whatever the arguments; otherwise KeepassxcFileNotFoundError if the path
\* is new or unverified and does not exist; otherwise
\* KeepassxcFileNotFoundError if a key file is given and its home-expanded
\* path does not exist; otherwise it returns.
C9_InitializeChecksInOrder ==
    [][op' = "initialize" =>
        ret'.exc =
            IF ~cli_checked /\ ~env'.installed THEN "KeepassxcCliNotFoundError"
            ELSE IF (args'.path # path \/ ~path_checked)
                    /\ ~Exists(env'.fs, args'.path)
                 THEN "KeepassxcFileNotFoundError"
            ELSE IF Truthy(args'.key_file_path)
                    /\ ~Exists(env'.fs, Expanduser(args'.key_file_path))
                 THEN "KeepassxcFileNotFoundError"
            ELSE "none"]_vars

C9_Witness ==
    /\ op = "initialize"
    /\ ~env.installed
    /\ ~Exists(env.fs, args.path)
    /\ Len(calls) = 0
    /\ path = args.path
    /\ ~path_checked
    /\ ret.exc = "KeepassxcFileNotFoundError"

\* C10: every call that changes the stored path or the stored timeout
\* (initialize, change_path, change_inactivity_lock_timeout) leaves the
\* passphrase None, so that is_passphrase_needed answers True after it, and
\* initialize with a path other than the stored one leaves the path
\* unverified unless the new path exists.  Stated for a database that a
\* successful verify_and_set_passphrase has unlocked.
C10_ConfigChangeLocks ==
    [][(/\ op' \in {"initialize", "change_path", "change_inactivity_lock_timeout"}
        /\ unlockedAt # NoTime
        /\ \/ path' # path
           \/ inactivity_lock_timeout' # inactivity_lock_timeout)
       => /\ passphrase' = None
          /\ LockedAfter = "True"
          /\ (op' = "initialize" /\ path' # path /\ ~Exists(env'.fs, path'))
                => ~path_checked']_vars

\* C11: when the tool cannot be spawned during verify_and_set_passphrase,
\* search or get_entry_details (on an object whose tool and path checks
\* have passed), the call
\* raises KeepassxcCliNotFoundError; verify_and_set_passphrase leaves the
\* passphrase set only when its listing ran and exited with 0, and None
\* when it ends in any other way.
C11_SpawnFailureCachesNothing ==
    [][(/\ op' \in {"verify_and_set_passphrase", "search", "get_entry_details"}
        /\ cli_checked
        /\ path_checked
        /\ Len(calls') > 0)
       => LET c == calls'[Len(calls')]
          IN  /\ ~c.spawned => ret'.exc = "KeepassxcCliNotFoundError"
              /\ op' = "verify_and_set_passphrase"
                    => (passphrase' # None <=> (c.spawned /\ c.rc = 0))]_vars

\* C12: with a nonzero timeout T, every invocation of the tool made by
\* verify_and_set_passphrase, search or get_entry_details that ran, whatever
\* its exit code, leaves the expiry at T after the moment the invocation
\* ended; and on a database unlocked by verify_and_set_passphrase, a search
\* or get_entry_details called less than T after the last invocation ended
\* does not raise KeepassxcLockedDbError.
C12_EveryInvocationRearms ==
    [][/\ (/\ op' \in {"verify_and_set_passphrase", "search", "get_entry_details"}
           /\ inactivity_lock_timeout' # 0)
          => \A i \in 1..Len(calls') :
                calls'[i].spawned
                   => /\ calls'[i].expires = calls'[i].done + inactivity_lock_timeout'
                      /\ i = Len(calls') => passphrase_expires_at' = calls'[i].expires
       /\ (/\ op' \in {"search", "get_entry_details"}
           /\ inactivity_lock_timeout # 0
           /\ unlockedAt # NoTime
           /\ lastRun # NoTime
           /\ now - lastRun < inactivity_lock_timeout)
          => /\ ret'.exc # "KeepassxcLockedDbError"
             /\ Len(calls') > 0]_vars

\* a search that runs after the expiry armed by the unlock has passed, and
\* whose invocation exits with a nonzero code
C12_Witness ==
    /\ op = "search"
    /\ inactivity_lock_timeout # 0
    /\ unlockedAt # NoTime
    /\ Len(calls) = 1
    /\ calls[1].at > unlockedAt + inactivity_lock_timeout
    /\ calls[1].spawned
    /\ calls[1].rc # 0
    /\ passphrase_expires_at = calls[1].done + inactivity_lock_timeout

\* C13: a call of is_passphrase_needed that returns, returns True exactly
\* when the passphrase is None after it; a passphrase whose nonzero timeout
\* has elapsed is None after the call; and a second call right after the
\* first returns the same value.
C13_LockedIffNoPassphrase ==
    [][(op' = "is_passphrase_needed" /\ ret'.exc = "none")
       => /\ ret'.bool \in {"True", "False"}
          /\ ret'.bool = "True" <=> passphrase' = None
          /\ (/\ inactivity_lock_timeout # 0
              /\ passphrase_expires_at # NoTime
              /\ now > passphrase_expires_at)
                => passphrase' = None
          /\ (op = "is_passphrase_needed" /\ ret.exc = "none")
                => /\ ret'.bool = ret.bool
                   /\ passphrase' = passphrase]_vars

\* the timeout elapsed on a database that search or get_entry_details had
\* used, and the call cleared the passphrase
C13_Witness ==
    /\ op = "is_passphrase_needed"
    /\ usedSince
    /\ before.passphrase # None
    /\ inactivity_lock_timeout # 0
    /\ passphrase_expires_at # NoTime
    /\ now > passphrase_expires_at
    /\ ret.bool = "True"
    /\ passphrase = None

\* the arguments a1..an that the last call passed to run_cli for its i-th
\* invocation
ArgsGiven(i) ==
    CASE op = "verify_and_set_passphrase" -> <<"ls", "-q", path>>
      [] op = "search" -> <<"search", "-q", path, args.query>>
      [] op = "get_entry_details" ->
            <<"show", "-q", "-a", <<"UserName", "Password", "URL", "Notes">>[i],
              path, <<"/">> \o args.entry>>

\* C14: every invocation that run_cli builds from arguments a1..an has the
\* argument vector [cli, a1, "-k", key file, a2, ..., an] when a key file is
\* stored and [cli, a1, ..., an] when none is, for the ls, search and show
\* invocations alike.
C14_KeyFileAfterSubcommand ==
    op \in {"verify_and_set_passphrase", "search", "get_entry_details"} =>
        \A i \in 1..Len(calls) :
            LET a == ArgsGiven(i)
            IN  calls[i].argv =
                    IF key_file_path # None
                    THEN <<Cli, Head(a), "-k", key_file_path>> \o Tail(a)
                    ELSE <<Cli>> \o a

C14_Witness ==
    /\ op = "get_entry_details"
    /\ key_file_path # None
    /\ Len(calls) = 4
    /\ calls[4].spawned
    /\ calls[4].argv[2] = "show"
    /\ calls[4].argv[3] = "-k"
    /\ calls[4].argv[4] = key_file_path
    /\ Len(calls[4].argv) = 9

\* the entry argument of an invocation: the last element of its argv
EntryOfCall(c) == c.argv[Len(c.argv)]

\* C15: search returns one name per line of the tool's stdout, in the same
\* order, each the line without its first character; get_entry_details
\* called with a name that the search before it returned passes "/" + name
\* as the entry argument of every show invocation, which is the raw line
\* again when that line starts with "/".
C15_NamesRoundTrip ==
    [][/\ (op' = "search" /\ ret'.exc = "none" /\ Len(calls') = 1 /\ calls'[1].rc = 0)
          => LET lines == SplitLines(calls'[1].out)
             IN  /\ Len(ret'.names) = Len(lines)
                 /\ \A i \in 1..Len(lines) :
                       /\ Len(ret'.names[i]) = Len(lines[i]) - 1
                       /\ lines[i] = <<lines[i][1]>> \o ret'.names[i]
       /\ (op = "search" /\ ret.exc = "none" /\ op' = "get_entry_details")
          => LET lines == SplitLines(calls[1].out)
             IN  \A i \in 1..Len(ret.names) :
                    args'.entry = ret.names[i]
                       => \A j \in 1..Len(calls') :
                             /\ EntryOfCall(calls'[j]) = <<"/">> \o ret.names[i]
                             /\ lines[i][1] = "/"
                                   => EntryOfCall(calls'[j]) = lines[i]]_vars

\* get_entry_details for the first name of a search that printed three lines
C15_Witness ==
    /\ op = "get_entry_details"
    /\ Len(SplitLines(before.listing)) = 3
    /\ args.entry = ParseNames(before.listing)[1]
    /\ Len(calls) = 4
    /\ \A j \in 1..4 : EntryOfCall(calls[j]) = SplitLines(before.listing)[1]
    /\ ret.exc = "none"

\* C16 as stated: after initialize called without a key file the stored key
\* file is None, and after initialize called with a key file that exists the
\* stored key file is its home-expanded form.
C16_AsStated ==
    op = "initialize" =>
        /\ ~Truthy(args.key_file_path) => key_file_path = None
        /\ (/\ Truthy(args.key_file_path)
            /\ Exists(env.fs, Expanduser(args.key_file_path)))
              => key_file_path = Expanduser(args.key_file_path)

\* C16 (amended): an initialize call that returns leaves the stored key file
\* None when it was called without a key file, whatever was stored before,
\* and the home-expanded form of its argument when it was called with one;
\* an initialize call that raises leaves the stored key file as it was.
\* After an initialize without a key file that returned, the invocations of
\* the next call carry no "-k".
C16_KeyFileFollowsInitialize ==
    [][/\ op' = "initialize"
          => key_file_path' =
                IF ret'.exc # "none" THEN key_file_path
                ELSE IF Truthy(args'.key_file_path)
                     THEN Expanduser(args'.key_file_path)
                ELSE None
       /\ (/\ op = "initialize"
           /\ ret.exc = "none"
           /\ ~Truthy(args.key_file_path)
           /\ op' \in {"verify_and_set_passphrase", "search", "get_entry_details"})
          => \A i \in 1..Len(calls') :
                \A j \in 1..(Len(calls'[i].argv) - 1) : calls'[i].argv[j] # "-k"]_vars

\* an initialize without a key file that raised at the path check and left
\* the key file of an earlier initialize stored
C16_Witness ==
    /\ op = "initialize"
    /\ ~Truthy(args.key_file_path)
    /\ ret.exc = "KeepassxcFileNotFoundError"
    /\ key_file_path # None
    /\ path = args.path

\* C17: whenever the passphrase is not None and the timeout is nonzero, the
\* expiry is not None, and is_passphrase_needed returns a boolean.  Stated
\* for an object whose tool and path checks have passed.
C17_ExpirySetWhilePassphraseCached ==
    (cli_checked /\ path_checked) =>
        /\ (passphrase # None /\ inactivity_lock_timeout # 0)
              => passphrase_expires_at # NoTime
        /\ op = "is_passphrase_needed" => ret.exc = "none"

\* C18: with a nonzero timeout, every invocation that search and
\* get_entry_details make starts no later than the expiry in force at that
\* moment: the stored expiry for the first invocation of the call, and the
\* expiry that the invocation before it left behind for each later one.
C18_NoInvocationAfterExpiry ==
    [][(/\ op' \in {"search", "get_entry_details"}
        /\ inactivity_lock_timeout # 0)
       => \A i \in 1..Len(calls') :
             LET inForce == IF i = 1 THEN passphrase_expires_at
                            ELSE calls'[i - 1].expires
             IN  /\ calls'[i].stdin = passphrase
                 /\ inForce # NoTime
                 /\ calls'[i].at <= inForce]_vars

\* get_entry_details started at the instant of expiry, whose first show was
\* blocked in the tool, so that the later ones ran after that instant
C18_Witness ==
    /\ op = "get_entry_details"
    /\ inactivity_lock_timeout # 0
    /\ unlockedAt # NoTime
    /\ Len(calls) = 4
    /\ calls[1].at = unlockedAt + inactivity_lock_timeout
    /\ calls[1].done > calls[1].at
    /\ calls[2].at > unlockedAt + inactivity_lock_timeout
    /\ calls[2].at <= calls[1].expires
    /\ calls[4].spawned

\* C19: a passphrase that a listing accepted stays cached only while the
\* stored path and the stored key file are those it was accepted under: no
\* call on an initialized database unlocked by verify_and_set_passphrase
\* changes the stored path or the stored key file and leaves a passphrase
\* cached.
C19_CachedPassphraseVerifiedUnderConfig ==
    [][(/\ cli_checked
        /\ path_checked
        /\ unlockedAt # NoTime
        /\ passphrase # None
        /\ passphrase' # None)
       => /\ path' = path
          /\ key_file_path' = key_file_path]_vars

\* the key-file argument k is the one that initialize stored as key
SameKeyFile(k, key) == IF Truthy(k) THEN Expanduser(k) = key ELSE key = None

\* C20: initialize called on an object whose tool and path checks have
\* passed, with the path, the timeout and the key file that the initialize
\* before it stored and that are still stored, leaves the passphrase, the
\* expiry, the path, the timeout and the key file as they were, attempts no
\* invocation of the tool, and leaves the answer of is_passphrase_needed as
\* it was.
C20_SameInitializeChangesNothing ==
    [][(/\ op' = "initialize"
        /\ cli_checked
        /\ path_checked
        /\ args'.path = path
        /\ args'.inactivity_lock_timeout = inactivity_lock_timeout
        /\ SameKeyFile(args'.key_file_path, key_file_path))
       => /\ passphrase' = passphrase
          /\ passphrase_expires_at' = passphrase_expires_at
          /\ path' = path
          /\ inactivity_lock_timeout' = inactivity_lock_timeout
          /\ key_file_path' = key_file_path
          /\ cli_checked' /\ path_checked'
          /\ Len(calls') = 0
          /\ LockedAfter = before'.locked]_vars

\* an unlocked database with a timeout and a key file, still unlocked after
\* an initialize that made no invocation
C20_Witness ==
    /\ op = "initialize"
    /\ ret.exc = "none"
    /\ Len(calls) = 0
    /\ args.path = path
    /\ args.inactivity_lock_timeout # 0
    /\ SameKeyFile(args.key_file_path, key_file_path)
    /\ key_file_path # None
    /\ before.locked = "False"
    /\ passphrase # None
    /\ passphrase = before.passphrase
    /\ passphrase_expires_at # NoTime
    /\ now <= passphrase_expires_at

====
